---- MODULE Spec2Model ----
(***************************************************************************)
(* Model of the Investor-Report-Finder front end.                          *)
(*                                                                         *)
(*   Spec      CompanyAutocomplete.jsx: the debounced suggestion fetch,    *)
(*             the browser timer table, the resolution calls in flight     *)
(*             and the keyboard / pointer handlers of the dropdown.        *)
(*   LiveSpec  Spec with the event loop's fairness: time passes and a due  *)
(*             timer callback is run.                                      *)
(*   DropdownSpec  Spec with the key or pointer event that each step       *)
(*             handled recorded in the state.                              *)
(*   RenderSpec  the badge and the label of one dropdown item.             *)
(*   SettingsSpec  FinderApp with its Settings modal and localStorage.     *)
(*   FormSpec  SearchForm (FinancialAnalysis.jsx:79-245) or FinderApp      *)
(*             (App.jsx:48-189): the two search-submission handlers.       *)
(*                                                                         *)
(* A JavaScript string is a sequence of one-character strings, so that     *)
(* trim(), toUpperCase() and length are computed, not assumed.  A call of  *)
(* a prop or of the network made by a step is recorded in a variable that  *)
(* holds the calls of the latest step only.                                *)
(***************************************************************************)
EXTENDS Integers, Sequences, FiniteSets, TLC

\* ------------------------------------------------------------------ bounds
MaxLen == 3
MaxMatches == 2
MaxTimers == 2
TickMs == 150
MaxFormLen == 2
MaxPosts == 2
MaxConf == 101
MaxKeyLen == 10
MaxSaves == 2

\* --------------------------------------------------------------- constants
DEBOUNCE_MS == 300
MAX_RESULTS == 5

\* JavaScript null where the other values are strings or booleans
Null == "null"
\* JavaScript null where the other values are objects
NullObj == [isNull |-> TRUE]
\* an absent (undefined) property where the present values are strings
Absent == <<"undefined">>

Chars == {" ", "a"}
Tickers == {"T1", "T2"}

\* the events of the DOM that reach the handlers of the dropdown: e.type, e.key
\* of a keydown, and the index of the item a pointer event is delivered to
KeyDown(k) == [type |-> "keydown", key |-> k, index |-> -1]
Pointer(t, i) == [type |-> t, key |-> "", index |-> i]
\* a step that handles no key or pointer event
NoEvent == [type |-> "none", key |-> "", index |-> -1]

Min(a, b) == IF a < b THEN a ELSE b
Max(a, b) == IF a > b THEN a ELSE b

Strings(n) == UNION {[1..k -> Chars] : k \in 0..n}
Inputs == Strings(MaxLen)
\* the candidates of one response are distinct companies
MatchLists ==
    {m \in UNION {[1..k -> Tickers] : k \in 0..MaxMatches} :
        \A i, j \in 1..Len(m) : i # j => m[i] # m[j]}

\* String.prototype.trim
RECURSIVE TrimStart(_)
TrimStart(s) == IF s # <<>> /\ Head(s) = " " THEN TrimStart(Tail(s)) ELSE s
RECURSIVE TrimEnd(_)
TrimEnd(s) ==
    IF s # <<>> /\ s[Len(s)] = " " THEN TrimEnd(SubSeq(s, 1, Len(s) - 1)) ELSE s
Trim(s) == TrimEnd(TrimStart(s))

\* String.prototype.toUpperCase
UpperChar(c) == IF c = "a" THEN "A" ELSE c
ToUpperCase(s) == [i \in 1..Len(s) |-> UpperChar(s[i])]

\* ------------------------------------------------------------------ state
\* CompanyAutocomplete (CompanyAutocomplete.jsx:14-23), the browser, the network
VARIABLES
    value,              \* prop: the text of the input
    suggestions,        \* useState([])
    loading,            \* useState(false)
    showDropdown,       \* useState(false)
    selectedIndex,      \* useState(-1)
    error,              \* useState(null)
    debounceTimerRef,   \* useRef(null): last handle returned by setTimeout, 0 = null
    timers,             \* browser timer table: pending [id, remaining, query]
    nextTimerId,        \* browser: the handle the next setTimeout returns
    inflight,           \* numbers of the resolve-company requests awaiting a response
    issued,             \* number of resolve-company requests sent so far
    fetchCalls,         \* bodies of the resolve-company requests sent by the latest step
    onSelectCalls,      \* arguments of the onSelect calls made by the latest step
    uncaught,           \* an exception escaped the timer callback
    sinceChange,        \* time since the last change of value, capped at DEBOUNCE_MS
    burstCalls,         \* requests sent since the current burst of changes began
    burstLen            \* changes of value in the current burst, 2 standing for 2 or more

\* the browser event delivered to CompanyAutocomplete
VARIABLES
    event               \* the key or pointer event the latest step handled, if it is recorded

uiVars == <<suggestions, loading, showDropdown, selectedIndex, error>>
timerVars == <<debounceTimerRef, timers, nextTimerId>>
clockVars == <<sinceChange, burstCalls, burstLen>>
acVars == <<value, uiVars, timerVars, inflight, issued, fetchCalls, onSelectCalls,
            uncaught, clockVars>>

\* SearchForm (FinancialAnalysis.jsx:79-87)
VARIABLES
    mounted,            \* which component this behaviour exercises
    prompt,             \* useState('')
    tickerInput,        \* useState('')
    selectedCompany,    \* useState(null)
    showAmbiguityModal, \* useState(false)
    ambiguousMatches,   \* useState([])
    pendingSearchData,  \* useState(null)
    onSearchCalls,      \* arguments of the onSearch calls made by the latest step
    alertCalls,         \* messages passed to window.alert by the latest step
    resolveAnswer       \* what POST /api/resolve-company answers for the form's query

sfState == <<prompt, tickerInput, selectedCompany, showAmbiguityModal,
             ambiguousMatches, pendingSearchData>>
sfVars == <<sfState, onSearchCalls, alertCalls, resolveAnswer>>

\* FinderApp (App.jsx:48-56)
VARIABLES
    faPrompt,           \* useState('')
    faResults,          \* useState(null)
    faLoading,          \* useState(false)
    faError,            \* useState(null)
    apiKeys,            \* useState(null)
    posts,              \* numbers of the POST /search requests awaiting a response
    postCount,          \* number of POST /search requests sent so far
    postCalls           \* bodies of the POST /search requests sent by the latest step

faVars == <<faPrompt, faResults, faLoading, faError, apiKeys, posts, postCount, postCalls>>

\* one rendered dropdown item (CompanyAutocomplete.jsx:198-201)
VARIABLES
    item,               \* the suggestion rendered: its confidence and match_type
    badge,              \* the text of its confidence-badge span
    label               \* the text of its match-type span

itemVars == <<item, badge, label>>

\* FinderApp's Settings modal (App.jsx, SettingsModal) and the browser storage
VARIABLES
    localStorage,       \* the item 'apiKeys' of window.localStorage
    showSettingsModal,  \* FinderApp state: the modal is open
    settings,           \* SettingsModal state: the form's fields
    saving,             \* SettingsModal state
    message,            \* SettingsModal state: the kind of message shown, or Null
    closeTimers,        \* pending 1500 ms timers set by a save
    saves,              \* history: saves since the browser profile was new
    editedSinceOpen     \* history: a field was edited since the modal was opened

smVars == <<localStorage, showSettingsModal, settings, saving, message,
            closeTimers, saves, editedSinceOpen>>

vars == <<acVars, event, mounted, sfVars, faVars, itemVars, smVars>>

\* ---------------------------------------------------- CompanyAutocomplete
\* the guard of the effect: !value || value.trim().length < 2
TooShort(v) == v = <<>> \/ Len(Trim(v)) < 2

\* mutant: clearTimeout forgotten
ClearTimeoutNoop(ts, id) == ts

\* mutant: the handle cleared is the one before the latest
ClearTimeoutStale(ts, id) == {t \in ts : t.id # id - 1}

\* clearTimeout(id): a no-op for null and for handles that fired or were cleared
ClearTimeout(ts, id) == {t \in ts : t.id # id}

\* mutant: the callback is scheduled without the debounce delay
SetTimeoutNoDelay(ts, id, v) == ts \cup {[id |-> id, remaining |-> 0, query |-> v]}

\* setTimeout(cb, 300) where cb closes over the value of this render
SetTimeout(ts, id, v) == ts \cup {[id |-> id, remaining |-> DEBOUNCE_MS, query |-> v]}

ACInit ==
    /\ value = <<>>
    /\ suggestions = <<>>
    /\ loading = FALSE
    /\ showDropdown = FALSE
    /\ selectedIndex = -1
    /\ error = Null
    /\ debounceTimerRef = 0
    /\ timers = {}
    /\ nextTimerId = 1
    /\ inflight = {}
    /\ issued = 0
    /\ fetchCalls = <<>>
    /\ onSelectCalls = <<>>
    /\ uncaught = FALSE
    /\ sinceChange = DEBOUNCE_MS
    /\ burstCalls = 0
    /\ burstLen = 0

\* a step of CompanyAutocomplete that calls neither fetch nor onSelect
ACQuiet == fetchCalls' = <<>> /\ onSelectCalls' = <<>>
\* the other components are not mounted
ACOnly == UNCHANGED <<mounted, sfVars, faVars, itemVars, smVars>>

\* The parent passes a new value (onChange of the input, line 162); the
\* effect on [value] runs (lines 40-93): the cleanup of the previous run, then
\* the body.
InputChange(v) ==
    /\ v # value
    /\ value' = v
    /\ burstCalls' = IF sinceChange >= DEBOUNCE_MS THEN 0 ELSE burstCalls
    /\ burstLen' = IF sinceChange >= DEBOUNCE_MS THEN 1 ELSE Min(2, burstLen + 1)
    /\ sinceChange' = 0
    /\ IF TooShort(v)
       THEN /\ timers' = ClearTimeout(timers, debounceTimerRef)
            /\ suggestions' = <<>>
            /\ showDropdown' = FALSE
            /\ UNCHANGED <<debounceTimerRef, nextTimerId>>
       ELSE /\ nextTimerId <= MaxTimers
            /\ timers' = SetTimeout(ClearTimeout(timers, debounceTimerRef), nextTimerId, v)
            /\ debounceTimerRef' = nextTimerId
            /\ nextTimerId' = nextTimerId + 1
            /\ UNCHANGED <<suggestions, showDropdown>>
    /\ UNCHANGED <<loading, selectedIndex, error, inflight, issued, uncaught>>
    /\ ACQuiet
    /\ ACOnly

\* Time passes.  A due timer may fire late, so time is not held back by it.
Tick ==
    /\ \/ sinceChange < DEBOUNCE_MS
       \/ \E t \in timers : t.remaining > 0
    /\ sinceChange' = Min(DEBOUNCE_MS, sinceChange + TickMs)
    /\ timers' = {[t EXCEPT !.remaining = Max(0, t.remaining - TickMs)] : t \in timers}
    /\ UNCHANGED <<value, uiVars, debounceTimerRef, nextTimerId, inflight, issued,
                   uncaught, burstCalls, burstLen>>
    /\ ACQuiet
    /\ ACOnly

\* mutant: the callback returns early while an error is displayed
TimerFireUnlessError ==
    /\ timers # {}
    /\ \E t \in timers :
        /\ t.remaining = 0
        /\ timers' = timers \ {t}
        /\ IF error # Null
           THEN /\ fetchCalls' = <<>>
                /\ UNCHANGED <<loading, error, inflight, issued, burstCalls>>
           ELSE /\ loading' = TRUE
                /\ error' = Null
                /\ inflight' = inflight \cup {issued + 1}
                /\ issued' = issued + 1
                /\ fetchCalls' = <<[query |-> t.query, max_results |-> MAX_RESULTS]>>
                /\ burstCalls' = burstCalls + 1
    /\ onSelectCalls' = <<>>
    /\ UNCHANGED <<value, suggestions, showDropdown, selectedIndex, debounceTimerRef,
                   nextTimerId, uncaught, sinceChange, burstLen>>
    /\ ACOnly

\* The debounce callback starts (lines 54-68): setLoading(true),
\* setError(null), fetch(...) with the value of the render that scheduled it
TimerFire ==
    /\ timers # {}
    /\ \E t \in timers :
        /\ t.remaining = 0
        /\ timers' = timers \ {t}
        /\ fetchCalls' = <<[query |-> t.query, max_results |-> MAX_RESULTS]>>
    /\ loading' = TRUE
    /\ error' = Null
    /\ inflight' = inflight \cup {issued + 1}
    /\ issued' = issued + 1
    /\ burstCalls' = burstCalls + 1
    /\ onSelectCalls' = <<>>
    /\ UNCHANGED <<value, suggestions, showDropdown, selectedIndex, debounceTimerRef,
                   nextTimerId, uncaught, sinceChange, burstLen>>
    /\ ACOnly

\* mutant: the client shows the matches in the opposite order
ApplySuccessReversed(m) ==
    /\ suggestions' = [i \in 1..Len(m) |-> m[Len(m) + 1 - i]]
    /\ showDropdown' = (Len(m) > 0)
    /\ selectedIndex' = -1
    /\ loading' = FALSE
    /\ UNCHANGED <<error, uncaught>>

\* mutant: a response leaves the highlighted index where it was
ApplySuccessKeepsHighlight(m) ==
    /\ suggestions' = m
    /\ showDropdown' = (Len(m) > 0)
    /\ loading' = FALSE
    /\ UNCHANGED <<selectedIndex, error, uncaught>>

\* lines 74-77 and the finally block: a 2xx response with data.matches = m
\* (a missing data.matches acts as m = [])
ApplySuccess(m) ==
    /\ suggestions' = m
    /\ showDropdown' = (Len(m) > 0)
    /\ selectedIndex' = -1
    /\ loading' = FALSE
    /\ UNCHANGED <<error, uncaught>>

\* mutant: the catch block only records the error
ApplyFailureKeepsList(msg) ==
    /\ error' = msg
    /\ loading' = FALSE
    /\ UNCHANGED <<suggestions, showDropdown, selectedIndex, uncaught>>

\* lines 78-85: the catch and finally blocks, err.message = msg
ApplyFailure(msg) ==
    /\ error' = msg
    /\ suggestions' = <<>>
    /\ showDropdown' = FALSE
    /\ loading' = FALSE
    /\ UNCHANGED <<selectedIndex, uncaught>>

\* The response of request c arrives with a 2xx status
ResponseOk(c, m) ==
    /\ c \in inflight
    /\ inflight' = inflight \ {c}
    /\ ApplySuccess(m)
    /\ UNCHANGED <<value, timerVars, issued, clockVars>>
    /\ ACQuiet
    /\ ACOnly

\* fetch resolves with a non-2xx status: line 71 throws inside the try
ResponseHttpError(c) ==
    /\ c \in inflight
    /\ inflight' = inflight \ {c}
    /\ ApplyFailure("Failed to fetch suggestions")
    /\ UNCHANGED <<value, timerVars, issued, clockVars>>
    /\ ACQuiet
    /\ ACOnly

\* fetch rejects (network error): the TypeError is caught by the same catch
ResponseNetworkError(c) ==
    /\ c \in inflight
    /\ inflight' = inflight \ {c}
    /\ ApplyFailure("Failed to fetch")
    /\ UNCHANGED <<value, timerVars, issued, clockVars>>
    /\ ACQuiet
    /\ ACOnly

\* handleSelectSuggestion (lines 126-131)
handleSelectSuggestion(suggestion) ==
    /\ onSelectCalls' = <<suggestion>>
    /\ showDropdown' = FALSE
    /\ selectedIndex' = -1
    /\ suggestions' = <<>>

\* the early return of handleKeyDown (line 97) negated; also the condition
\* under which the dropdown items are rendered (line 175)
DropdownOpen == showDropdown /\ Len(suggestions) > 0

\* mutant: Arrow-down on the last item wraps to the first
ArrowDownWraps ==
    /\ DropdownOpen
    /\ selectedIndex' =
           IF selectedIndex < Len(suggestions) - 1 THEN selectedIndex + 1 ELSE 0
    /\ UNCHANGED <<value, suggestions, loading, showDropdown, error, timerVars,
                   inflight, issued, uncaught, clockVars>>
    /\ ACQuiet
    /\ ACOnly

\* handleKeyDown, case 'ArrowDown' (lines 100-105)
ArrowDown ==
    /\ DropdownOpen
    /\ selectedIndex' =
           IF selectedIndex < Len(suggestions) - 1 THEN selectedIndex + 1 ELSE selectedIndex
    /\ UNCHANGED <<value, suggestions, loading, showDropdown, error, timerVars,
                   inflight, issued, uncaught, clockVars>>
    /\ ACQuiet
    /\ ACOnly

\* handleKeyDown, case 'ArrowUp' (lines 106-109)
ArrowUp ==
    /\ DropdownOpen
    /\ selectedIndex' = IF selectedIndex > 0 THEN selectedIndex - 1 ELSE -1
    /\ UNCHANGED <<value, suggestions, loading, showDropdown, error, timerVars,
                   inflight, issued, uncaught, clockVars>>
    /\ ACQuiet
    /\ ACOnly

\* mutant: Enter without a highlighted item finalizes the first candidate
EnterDefaultsToFirst ==
    /\ DropdownOpen
    /\ IF selectedIndex >= 0 /\ selectedIndex < Len(suggestions)
       THEN handleSelectSuggestion(suggestions[selectedIndex + 1])
       ELSE handleSelectSuggestion(suggestions[1])
    /\ fetchCalls' = <<>>
    /\ UNCHANGED <<value, loading, error, timerVars, inflight, issued, uncaught, clockVars>>
    /\ ACOnly

\* handleKeyDown, case 'Enter' (lines 110-115); suggestions[i] of the
\* 0-based JavaScript array is suggestions[i + 1] here
Enter ==
    /\ DropdownOpen
    /\ IF selectedIndex >= 0 /\ selectedIndex < Len(suggestions)
       THEN handleSelectSuggestion(suggestions[selectedIndex + 1])
       ELSE /\ onSelectCalls' = <<>>
            /\ UNCHANGED <<showDropdown, selectedIndex, suggestions>>
    /\ fetchCalls' = <<>>
    /\ UNCHANGED <<value, loading, error, timerVars, inflight, issued, uncaught, clockVars>>
    /\ ACOnly

\* mutant: Escape closes the dropdown and keeps the highlight
EscapeKeepsHighlight ==
    /\ DropdownOpen
    /\ showDropdown' = FALSE
    /\ UNCHANGED <<value, suggestions, loading, selectedIndex, error, timerVars,
                   inflight, issued, uncaught, clockVars>>
    /\ ACQuiet
    /\ ACOnly

\* handleKeyDown, case 'Escape' (lines 116-120)
Escape ==
    /\ DropdownOpen
    /\ showDropdown' = FALSE
    /\ selectedIndex' = -1
    /\ UNCHANGED <<value, suggestions, loading, error, timerVars, inflight, issued,
                   uncaught, clockVars>>
    /\ ACQuiet
    /\ ACOnly

\* onMouseEnter of item i (line 182), i 0-based
Hover(i) ==
    /\ DropdownOpen
    /\ i \in 0..(Len(suggestions) - 1)
    /\ selectedIndex' = i
    /\ UNCHANGED <<value, suggestions, loading, showDropdown, error, timerVars,
                   inflight, issued, uncaught, clockVars>>
    /\ ACQuiet
    /\ ACOnly

\* mutant: a click reports the candidate and leaves the dropdown as it is
ClickKeepsOpen(i) ==
    /\ DropdownOpen
    /\ i \in 0..(Len(suggestions) - 1)
    /\ onSelectCalls' = <<suggestions[i + 1]>>
    /\ fetchCalls' = <<>>
    /\ UNCHANGED <<value, uiVars, timerVars, inflight, issued, uncaught, clockVars>>
    /\ ACOnly

\* onClick of item i (line 181), i 0-based
Click(i) ==
    /\ DropdownOpen
    /\ i \in 0..(Len(suggestions) - 1)
    /\ handleSelectSuggestion(suggestions[i + 1])
    /\ fetchCalls' = <<>>
    /\ UNCHANGED <<value, loading, error, timerVars, inflight, issued, uncaught, clockVars>>
    /\ ACOnly

\* mutant: a press outside also drops the candidates
ClickOutsideClearsList ==
    /\ showDropdown
    /\ showDropdown' = FALSE
    /\ suggestions' = <<>>
    /\ UNCHANGED <<value, loading, selectedIndex, error, timerVars,
                   inflight, issued, uncaught, clockVars>>
    /\ ACQuiet
    /\ ACOnly

\* handleClickOutside (lines 27-31); the listener is attached only while
\* showDropdown is true (line 33)
ClickOutside ==
    /\ showDropdown
    /\ showDropdown' = FALSE
    /\ UNCHANGED <<value, suggestions, loading, selectedIndex, error, timerVars,
                   inflight, issued, uncaught, clockVars>>
    /\ ACQuiet
    /\ ACOnly

\* the dropdown items from top to bottom (lines 175-204): suggestions.map in
\* the order of the array, rendered only while the dropdown is open
Displayed == IF DropdownOpen THEN suggestions ELSE <<>>

\* the condition under which "No matching companies found" is rendered (line 207)
NoResultsShown ==
    showDropdown /\ Len(suggestions) = 0 /\ ~loading /\ Len(Trim(value)) >= 2
\* the condition under which the error message is rendered (line 215)
ErrorShown == error # Null /\ error # ""

\* ---------------------------------------------------- the dropdown item
\* suggestion.confidence: a number, in hundredths, or a value that is not a
\* number (undefined, NaN), for which every >= comparison is false
Num(n) == [isNumber |-> TRUE, hundredths |-> n]
NotNumber == [isNumber |-> FALSE, hundredths |-> 0]
Confidences == {Num(n) : n \in -1..MaxConf} \cup {NotNumber}

\* suggestion.match_type: a string, or missing
Str(x) == [present |-> TRUE, s |-> x]
Missing == [present |-> FALSE, s |-> ""]
MatchTypes ==
    {Str(x) : x \in {"exact", "exact_ticker", "prefix", "contains", "fuzzy",
                     "Exact", "semantic", ""}} \cup {Missing}

Items == [confidence : Confidences, match_type : MatchTypes]

\* the thresholds of getConfidenceBadge, 0.95 and 0.8, in hundredths
HIGH_CONFIDENCE == 95
MEDIUM_CONFIDENCE == 80
\* its three results: the check mark literal of line 134, '~' and '?'
HighMarker == "check"
MediumMarker == "~"
LowMarker == "?"

\* mutant: the thresholds are exclusive
getConfidenceBadgeExclusive(confidence) ==
    IF confidence.isNumber /\ confidence.hundredths > HIGH_CONFIDENCE THEN HighMarker
    ELSE IF confidence.isNumber /\ confidence.hundredths > MEDIUM_CONFIDENCE THEN MediumMarker
    ELSE LowMarker

\* getConfidenceBadge (lines 133-137)
getConfidenceBadge(confidence) ==
    IF confidence.isNumber /\ confidence.hundredths >= HIGH_CONFIDENCE THEN HighMarker
    ELSE IF confidence.isNumber /\ confidence.hundredths >= MEDIUM_CONFIDENCE THEN MediumMarker
    ELSE LowMarker

\* mutant: the case 'exact_ticker' is missing from the switch
getMatchTypeLabelNoTicker(matchType) ==
    IF ~matchType.present THEN ""
    ELSE CASE matchType.s = "exact" -> "Exact"
           [] matchType.s = "prefix" -> "Starts with"
           [] matchType.s = "contains" -> "Contains"
           [] matchType.s = "fuzzy" -> "Similar"
           [] OTHER -> ""

\* getMatchTypeLabel (lines 139-153): a switch on strict equality, so that a
\* missing value falls to the default as any unknown string does
getMatchTypeLabel(matchType) ==
    IF ~matchType.present THEN ""
    ELSE CASE matchType.s \in {"exact", "exact_ticker"} -> "Exact"
           [] matchType.s = "prefix" -> "Starts with"
           [] matchType.s = "contains" -> "Contains"
           [] matchType.s = "fuzzy" -> "Similar"
           [] OTHER -> ""

\* the spans of an item before the item is rendered
NotRendered == "not rendered"

ItemInit ==
    /\ item = [confidence |-> NotNumber, match_type |-> Missing]
    /\ badge = NotRendered
    /\ label = NotRendered

\* the item is rendered (lines 198-201)
RenderItem ==
    /\ badge = NotRendered
    /\ label' = getMatchTypeLabel(item.match_type)
    /\ badge' = getConfidenceBadge(item.confidence)
    /\ UNCHANGED <<item, acVars, event, mounted, sfVars, faVars, smVars>>

\* CompanyAutocomplete is rendered
ACMounted == mounted = "CompanyAutocomplete"

\* mutant: the effect has no cleanup
UnmountKeepsTimer ==
    /\ ACMounted
    /\ mounted' = "none"
    /\ value' = <<>>
    /\ suggestions' = <<>>
    /\ loading' = FALSE
    /\ showDropdown' = FALSE
    /\ selectedIndex' = -1
    /\ error' = Null
    /\ UNCHANGED <<timerVars, inflight, issued, uncaught, clockVars>>
    /\ ACQuiet
    /\ UNCHANGED <<sfVars, faVars, itemVars, smVars>>

\* The parent stops rendering CompanyAutocomplete: React runs the cleanup of
\* the effect on [value] (lines 88-92) and discards the props, the state and
\* the refs of the component; their variables hold the initial values from
\* then on.  The browser keeps its timer table and the requests in flight.
Unmount ==
    /\ ACMounted
    /\ mounted' = "none"
    /\ timers' = ClearTimeout(timers, debounceTimerRef)
    /\ debounceTimerRef' = 0
    /\ value' = <<>>
    /\ suggestions' = <<>>
    /\ loading' = FALSE
    /\ showDropdown' = FALSE
    /\ selectedIndex' = -1
    /\ error' = Null
    /\ UNCHANGED <<nextTimerId, inflight, issued, uncaught, clockVars>>
    /\ ACQuiet
    /\ UNCHANGED <<sfVars, faVars, itemVars, smVars>>

\* A response arrives after the unmount: the setters of lines 74-84 act on a
\* component that no longer exists and change nothing
ResponseAfterUnmount(c) ==
    /\ ~ACMounted
    /\ c \in inflight
    /\ inflight' = inflight \ {c}
    /\ UNCHANGED <<value, uiVars, timerVars, issued, uncaught, clockVars>>
    /\ ACQuiet
    /\ ACOnly

\* ------------------------------------------------------------- SearchForm
FormInputs == Strings(MaxFormLen)
Companies == {[ticker |-> <<"A">>], [ticker |-> <<"A", "A">>]}
CompanyLists ==
    {m \in UNION {[1..k -> Companies] : k \in 0..MaxMatches} :
        \A i, j \in 1..Len(m) : i # j => m[i] # m[j]}
ResolveAnswers == [is_ambiguous : BOOLEAN, matches : CompanyLists]
\* the answer where SearchForm is not mounted and the request is never made
NoAnswer == [is_ambiguous |-> FALSE, matches |-> <<>>]

SFInit ==
    /\ prompt = <<>>
    /\ tickerInput = <<>>
    /\ selectedCompany = NullObj
    /\ showAmbiguityModal = FALSE
    /\ ambiguousMatches = <<>>
    /\ pendingSearchData = NullObj
    /\ onSearchCalls = <<>>
    /\ alertCalls = <<>>

\* a step of SearchForm that calls neither onSearch nor alert
SFQuiet == onSearchCalls' = <<>> /\ alertCalls' = <<>>
SFOnly == UNCHANGED <<mounted, acVars, event, faVars, resolveAnswer, itemVars, smVars>>

\* the prompt handleSubmit makes up for a ticker (line 132)
SyntheticPrompt(ticker) == <<"Find investor reports for ">> \o ticker

\* mutant: a submission of a ticker alone carries no prompt
BuildSearchDataNoSynthetic(p, t) ==
    [ticker |-> IF Trim(t) # <<>> THEN ToUpperCase(Trim(t)) ELSE Absent,
     prompt |-> IF Trim(p) # <<>> THEN Trim(p) ELSE Absent]

\* mutant: the ticker is sent as typed, not trimmed
BuildSearchDataRawTicker(p, t) ==
    LET ticker == IF Trim(t) # <<>> THEN ToUpperCase(t) ELSE Absent
        typed == IF Trim(p) # <<>> THEN Trim(p) ELSE Absent
    IN  [ticker |-> ticker,
         prompt |-> IF typed = Absent /\ ticker # Absent
                    THEN SyntheticPrompt(ticker) ELSE typed]

\* the searchData object handleSubmit builds (lines 118-133)
BuildSearchData(p, t) ==
    LET ticker == IF Trim(t) # <<>> THEN ToUpperCase(Trim(t)) ELSE Absent
        typed == IF Trim(p) # <<>> THEN Trim(p) ELSE Absent
    IN  [ticker |-> ticker,
         prompt |-> IF typed = Absent /\ ticker # Absent
                    THEN SyntheticPrompt(ticker) ELSE typed]

\* mutant: the validation guard without trim()
NothingEnteredNoTrim(p, t) == p = <<>> /\ t = <<>>

\* the validation guard of handleSubmit (line 113)
NothingEntered(p, t) == Trim(p) = <<>> /\ Trim(t) = <<>>

\* onChange of the prompt textarea (line 172)
SetPrompt(s) ==
    /\ mounted = "SearchForm"
    /\ s # prompt
    /\ prompt' = s
    /\ UNCHANGED <<tickerInput, selectedCompany, showAmbiguityModal, ambiguousMatches,
                   pendingSearchData>>
    /\ SFQuiet
    /\ SFOnly

\* onChange of the ticker input (line 193)
SetTickerInput(s) ==
    /\ mounted = "SearchForm"
    /\ ToUpperCase(s) # tickerInput
    /\ tickerInput' = ToUpperCase(s)
    /\ UNCHANGED <<prompt, selectedCompany, showAmbiguityModal, ambiguousMatches,
                   pendingSearchData>>
    /\ SFQuiet
    /\ SFOnly

\* handleSubmit (lines 109-137) on a submit event of the form.  The handler
\* never calls checkAmbiguity (lines 89-107), so resolveAnswer is not read.
handleSubmit ==
    /\ mounted = "SearchForm"
    /\ IF NothingEntered(prompt, tickerInput)
       THEN /\ alertCalls' = <<"Please enter a search query or ticker symbol">>
            /\ onSearchCalls' = <<>>
       ELSE /\ onSearchCalls' = <<BuildSearchData(prompt, tickerInput)>>
            /\ alertCalls' = <<>>
    /\ UNCHANGED sfState
    /\ SFOnly

\* handleReset (lines 154-159); onReset() acts on the parent only
handleReset ==
    /\ mounted = "SearchForm"
    /\ prompt' = <<>>
    /\ tickerInput' = <<>>
    /\ selectedCompany' = NullObj
    /\ UNCHANGED <<showAmbiguityModal, ambiguousMatches, pendingSearchData>>
    /\ SFQuiet
    /\ SFOnly

\* handleAmbiguitySelect (lines 139-152), the onSelect of AmbiguityModal;
\* AmbiguityModal renders its options only while isOpen (AmbiguityModal.jsx:11)
handleAmbiguitySelect(company) ==
    /\ mounted = "SearchForm"
    /\ showAmbiguityModal
    /\ showAmbiguityModal' = FALSE
    /\ selectedCompany' = company
    /\ tickerInput' = company.ticker
    /\ IF pendingSearchData # NullObj
       THEN /\ onSearchCalls' = <<[pendingSearchData EXCEPT !.ticker = company.ticker]>>
            /\ pendingSearchData' = NullObj
       ELSE /\ onSearchCalls' = <<>>
            /\ UNCHANGED pendingSearchData
    /\ alertCalls' = <<>>
    /\ UNCHANGED <<prompt, ambiguousMatches>>
    /\ SFOnly

\* onCancel of AmbiguityModal (line 239)
AmbiguityCancel ==
    /\ mounted = "SearchForm"
    /\ showAmbiguityModal
    /\ showAmbiguityModal' = FALSE
    /\ UNCHANGED <<prompt, tickerInput, selectedCompany, ambiguousMatches,
                   pendingSearchData>>
    /\ SFQuiet
    /\ SFOnly

\* -------------------------------------------------------------- FinderApp
FAInit ==
    /\ faPrompt = <<>>
    /\ faResults = Null
    /\ faLoading = FALSE
    /\ faError = Null
    /\ apiKeys = NullObj
    /\ posts = {}
    /\ postCount = 0
    /\ postCalls = <<>>

\* ------------------------------------------------------------ SettingsModal
\* the bullet character of lines 31 and 64
Bullet == "*"
MASK_FROM == 10
MASK_BULLETS == 16
MASK_TAIL == 6

\* the API keys a user has: the first n characters of one text
KeyText == <<"a", "b", "c", "d", "e", "f", "g", "h", "i", "j", "k", "l">>
Key(n) == SubSeq(KeyText, 1, n)
KeyLens == {0} \cup ((MASK_FROM - 1)..MaxKeyLen)
KeyInputs == {Key(n) : n \in KeyLens}
Providers == {"openai", "openrouter"}
KeyFields == {"openai_api_key", "openrouter_api_key", "serper_api_key", "tavily_api_key"}

\* useState of settings (lines 9-15), also the value of updateData for '{}'
EmptySettings ==
    [openai_provider |-> "openai", openai_api_key |-> <<>>, openrouter_api_key |-> <<>>,
     serper_api_key |-> <<>>, tavily_api_key |-> <<>>]

\* localStorage.getItem('apiKeys') is null
NoItem == [present |-> FALSE, data |-> EmptySettings]
StoredItem(d) == [present |-> TRUE, data |-> d]

\* key.slice(-n)
SliceLast(key, n) == SubSeq(key, Max(Len(key) - n, 0) + 1, Len(key))
\* s.startsWith of two bullets (lines 64-73)
StartsWithBullets(s) == Len(s) >= 2 /\ s[1] = Bullet /\ s[2] = Bullet

\* maskKey (lines 29-32)
maskKey(key) ==
    IF key = <<>> \/ Len(key) < MASK_FROM THEN key
    ELSE [i \in 1..MASK_BULLETS |-> Bullet] \o SliceLast(key, MASK_TAIL)

\* the state of settings after loadSettings (lines 23-44)
loadSettings(current) ==
    IF localStorage.present
    THEN LET data == localStorage.data
         IN  [openai_provider |-> data.openai_provider,
              openai_api_key |-> maskKey(data.openai_api_key),
              openrouter_api_key |-> maskKey(data.openrouter_api_key),
              serper_api_key |-> maskKey(data.serper_api_key),
              tavily_api_key |-> maskKey(data.tavily_api_key)]
    ELSE current

\* updateData of handleSubmit (lines 53-75)
UpdateData ==
    LET existingKeys == localStorage.data
        Merged(f) == IF settings[f] # <<>> /\ ~StartsWithBullets(settings[f])
                     THEN settings[f] ELSE existingKeys[f]
    IN  [openai_provider |-> settings.openai_provider,
         openai_api_key |-> Merged("openai_api_key"),
         openrouter_api_key |-> Merged("openrouter_api_key"),
         serper_api_key |-> Merged("serper_api_key"),
         tavily_api_key |-> Merged("tavily_api_key")]

SMInit ==
    /\ localStorage = NoItem
    /\ showSettingsModal = FALSE
    /\ settings = EmptySettings
    /\ saving = FALSE
    /\ message = Null
    /\ closeTimers = 0
    /\ saves = 0
    /\ editedSinceOpen = FALSE

\* FinderApp's actions leave the modal alone
SMQuiet == UNCHANGED <<mounted, acVars, event, sfVars, itemVars,
                       faPrompt, faResults, faLoading, faError, apiKeys, posts, postCount>>

\* the Settings button (App.jsx:146), then the effect of isOpen (lines 17-21)
OpenSettings ==
    /\ mounted = "FinderApp"
    /\ ~showSettingsModal
    /\ showSettingsModal' = TRUE
    /\ settings' = loadSettings(settings)
    /\ editedSinceOpen' = FALSE
    /\ postCalls' = <<>>
    /\ UNCHANGED <<localStorage, saving, message, closeTimers, saves>>
    /\ SMQuiet

\* handleChange (lines 93-95) from the provider radios and the two key inputs
handleChange(field, v) ==
    /\ mounted = "FinderApp"
    /\ showSettingsModal
    /\ settings[field] # v
    /\ settings' = [settings EXCEPT ![field] = v]
    /\ editedSinceOpen' = TRUE
    /\ postCalls' = <<>>
    /\ UNCHANGED <<localStorage, showSettingsModal, saving, message, closeTimers, saves>>
    /\ SMQuiet

\* handleSubmit of the modal (lines 46-91); nothing between setSaving(true)
\* and setSaving(false) awaits
SaveSettings ==
    /\ mounted = "FinderApp"
    /\ showSettingsModal
    /\ saves < MaxSaves
    /\ localStorage' = StoredItem(UpdateData)
    /\ message' = "success"
    /\ saving' = FALSE
    /\ closeTimers' = closeTimers + 1
    /\ saves' = saves + 1
    /\ postCalls' = <<>>
    /\ UNCHANGED <<showSettingsModal, settings, editedSinceOpen>>
    /\ SMQuiet

\* the timer of a save fires (lines 81-84): onClose, then loadSettings
CloseTimerFire ==
    /\ mounted = "FinderApp"
    /\ closeTimers > 0
    /\ closeTimers' = closeTimers - 1
    /\ showSettingsModal' = FALSE
    /\ settings' = loadSettings(settings)
    /\ postCalls' = <<>>
    /\ UNCHANGED <<localStorage, saving, message, saves, editedSinceOpen>>
    /\ SMQuiet

\* onClose from Cancel, the close button or the overlay (lines 100-105, 230)
CloseSettings ==
    /\ mounted = "FinderApp"
    /\ showSettingsModal
    /\ showSettingsModal' = FALSE
    /\ postCalls' = <<>>
    /\ UNCHANGED <<localStorage, settings, saving, message, closeTimers, saves,
                   editedSinceOpen>>
    /\ SMQuiet

\* the page is loaded again: FinderApp and the modal are constructed anew and
\* the effect of App.jsx:58-64 reads the stored keys
Reload ==
    /\ mounted = "FinderApp"
    /\ apiKeys' = IF localStorage.present THEN localStorage.data ELSE NullObj
    /\ faPrompt' = <<>>
    /\ faResults' = Null
    /\ faLoading' = FALSE
    /\ faError' = Null
    /\ posts' = {}
    /\ postCount' = 0
    /\ postCalls' = <<>>
    /\ showSettingsModal' = FALSE
    /\ settings' = EmptySettings
    /\ saving' = FALSE
    /\ message' = Null
    /\ closeTimers' = 0
    /\ editedSinceOpen' = FALSE
    /\ UNCHANGED <<localStorage, saves>>
    /\ UNCHANGED <<mounted, acVars, event, sfVars, itemVars>>

FAOnly == UNCHANGED <<mounted, acVars, event, sfVars, itemVars, smVars>>

\* a || b on strings
OrElse(a, b) == IF a # <<>> THEN a ELSE b
\* apiKeys?.field || ''
KeyField(k, field) == IF k = NullObj THEN <<>> ELSE k[field]
\* requestBody of handleSearch (lines 87-96); JSON.stringify drops the
\* undefined fields
RequestBody(p, k) ==
    [prompt |-> Trim(p),
     openai_api_key |->
         OrElse(OrElse(KeyField(k, "openai_api_key"), KeyField(k, "openrouter_api_key")),
                Absent),
     serper_api_key |-> OrElse(KeyField(k, "serper_api_key"), Absent),
     openai_provider |-> IF k = NullObj THEN "openai" ELSE k.openai_provider]

\* onChange of the prompt textarea (line 179)
FaSetPrompt(s) ==
    /\ mounted = "FinderApp"
    /\ s # faPrompt
    /\ faPrompt' = s
    /\ postCalls' = <<>>
    /\ UNCHANGED <<faResults, faLoading, faError, apiKeys, posts, postCount>>
    /\ FAOnly

\* handleSearch (lines 73-104) up to the await of fetch
handleSearch ==
    /\ mounted = "FinderApp"
    /\ IF Trim(faPrompt) = <<>>
       THEN /\ faError' = "Please enter a search query"
            /\ postCalls' = <<>>
            /\ UNCHANGED <<faResults, faLoading, posts, postCount>>
       ELSE /\ postCount < MaxPosts
            /\ faLoading' = TRUE
            /\ faError' = Null
            /\ faResults' = Null
            /\ posts' = posts \cup {postCount + 1}
            /\ postCount' = postCount + 1
            /\ postCalls' = <<RequestBody(faPrompt, apiKeys)>>
    /\ UNCHANGED <<faPrompt, apiKeys>>
    /\ FAOnly

\* handleSearch (lines 111-117): a 2xx response
SearchResponseOk(r) ==
    /\ r \in posts
    /\ posts' = posts \ {r}
    /\ faResults' = "data"
    /\ faLoading' = FALSE
    /\ postCalls' = <<>>
    /\ UNCHANGED <<faPrompt, faError, apiKeys, postCount>>
    /\ FAOnly

\* handleSearch (lines 106-109, 113-117): a non-2xx response or a rejected fetch
SearchResponseFail(r) ==
    /\ r \in posts
    /\ posts' = posts \ {r}
    /\ faError' = "Search failed"
    /\ faLoading' = FALSE
    /\ postCalls' = <<>>
    /\ UNCHANGED <<faPrompt, faResults, apiKeys, postCount>>
    /\ FAOnly

\* handleReset (lines 120-124)
FaReset ==
    /\ mounted = "FinderApp"
    /\ faPrompt' = <<>>
    /\ faResults' = Null
    /\ faError' = Null
    /\ postCalls' = <<>>
    /\ UNCHANGED <<faLoading, apiKeys, posts, postCount>>
    /\ FAOnly

\* ---------------------------------------------------------- specifications
\* CompanyAutocomplete on its own
Init ==
    /\ mounted = "CompanyAutocomplete"
    /\ ACInit
    /\ event = NoEvent
    /\ SFInit
    /\ resolveAnswer = NoAnswer
    /\ FAInit
    /\ ItemInit
    /\ SMInit

\* the steps of CompanyAutocomplete, the events not recorded
Next ==
    \/ ACMounted /\ \E v \in Inputs : InputChange(v) /\ UNCHANGED event
    \/ Tick /\ UNCHANGED event
    \/ TimerFire /\ UNCHANGED event
    \/ ACMounted /\ \E c \in inflight, m \in MatchLists : ResponseOk(c, m) /\ UNCHANGED event
    \/ ACMounted /\ \E c \in inflight : ResponseHttpError(c) /\ UNCHANGED event
    \/ ACMounted /\ \E c \in inflight : ResponseNetworkError(c) /\ UNCHANGED event
    \/ ACMounted /\ ArrowDown /\ UNCHANGED event
    \/ ACMounted /\ ArrowUp /\ UNCHANGED event
    \/ ACMounted /\ Enter /\ UNCHANGED event
    \/ ACMounted /\ Escape /\ UNCHANGED event
    \/ ACMounted /\ \E i \in 0..(MaxMatches - 1) : Hover(i) /\ UNCHANGED event
    \/ ACMounted /\ \E i \in 0..(MaxMatches - 1) : Click(i) /\ UNCHANGED event
    \/ ACMounted /\ ClickOutside /\ UNCHANGED event
    \/ Unmount /\ UNCHANGED event
    \/ \E c \in inflight : ResponseAfterUnmount(c) /\ UNCHANGED event

Spec == Init /\ [][Next]_vars

\* Fairness of the event loop: time passes, and a due timer callback is run.
LiveSpec ==
    Spec /\ WF_vars(Tick /\ UNCHANGED event) /\ WF_vars(TimerFire /\ UNCHANGED event)

\* the same steps, each recording the key or pointer event it handled
DropdownNext ==
    \/ ACMounted /\ \E v \in Inputs : InputChange(v) /\ event' = NoEvent
    \/ Tick /\ event' = NoEvent
    \/ TimerFire /\ event' = NoEvent
    \/ ACMounted /\ \E c \in inflight, m \in MatchLists : ResponseOk(c, m) /\ event' = NoEvent
    \/ ACMounted /\ \E c \in inflight : ResponseHttpError(c) /\ event' = NoEvent
    \/ ACMounted /\ \E c \in inflight : ResponseNetworkError(c) /\ event' = NoEvent
    \/ ACMounted /\ ArrowDown /\ event' = KeyDown("ArrowDown")
    \/ ACMounted /\ ArrowUp /\ event' = KeyDown("ArrowUp")
    \/ ACMounted /\ Enter /\ event' = KeyDown("Enter")
    \/ ACMounted /\ Escape /\ event' = KeyDown("Escape")
    \/ ACMounted /\ \E i \in 0..(MaxMatches - 1) : Hover(i) /\ event' = Pointer("mouseenter", i)
    \/ ACMounted /\ \E i \in 0..(MaxMatches - 1) : Click(i) /\ event' = Pointer("click", i)
    \/ ACMounted /\ ClickOutside /\ event' = Pointer("mousedown", -1)
    \/ Unmount /\ event' = NoEvent
    \/ \E c \in inflight : ResponseAfterUnmount(c) /\ event' = NoEvent

DropdownSpec == Init /\ [][DropdownNext]_vars

\* The rendering of one dropdown item, for every item the service can send
RenderInit ==
    /\ mounted = "CompanyAutocomplete"
    /\ ACInit
    /\ event = NoEvent
    /\ SFInit
    /\ resolveAnswer = NoAnswer
    /\ FAInit
    /\ item \in Items
    /\ badge = NotRendered
    /\ label = NotRendered
    /\ SMInit

RenderNext == RenderItem

RenderSpec == RenderInit /\ [][RenderNext]_vars

\* SearchForm or FinderApp on its own
FormInit ==
    /\ mounted \in {"SearchForm", "FinderApp"}
    /\ ACInit
    /\ event = NoEvent
    /\ SFInit
    /\ resolveAnswer \in ResolveAnswers
    /\ mounted = "FinderApp" => resolveAnswer = NoAnswer
    /\ FAInit
    /\ ItemInit
    /\ SMInit

FormNext ==
    \/ \E s \in FormInputs : SetPrompt(s)
    \/ \E s \in FormInputs : SetTickerInput(s)
    \/ handleSubmit
    \/ handleReset
    \/ \E s \in FormInputs : FaSetPrompt(s)
    \/ handleSearch
    \/ \E r \in posts : SearchResponseOk(r)
    \/ \E r \in posts : SearchResponseFail(r)
    \/ FaReset

FormSpec == FormInit /\ [][FormNext]_vars

\* the queries typed while the Settings are exercised
Queries == {<<"a">>}

\* FinderApp with its Settings modal, in a browser that has stored nothing
SettingsInit ==
    /\ mounted = "FinderApp"
    /\ ACInit
    /\ event = NoEvent
    /\ SFInit
    /\ resolveAnswer = NoAnswer
    /\ FAInit
    /\ ItemInit
    /\ SMInit

SettingsNext ==
    \/ \E s \in Queries : FaSetPrompt(s)
    \/ handleSearch
    \/ \E r \in posts : SearchResponseOk(r)
    \/ \E r \in posts : SearchResponseFail(r)
    \/ OpenSettings
    \/ \E v \in Providers : handleChange("openai_provider", v)
    \/ \E f \in {"openai_api_key", "serper_api_key"}, v \in KeyInputs : handleChange(f, v)
    \/ SaveSettings
    \/ CloseTimerFire
    \/ CloseSettings
    \/ Reload

SettingsSpec == SettingsInit /\ [][SettingsNext]_vars

\* ------------------------------------------------------------------ claims
\* the requests whose response arrives in this step
Arrived == inflight \ inflight'
\* the timer handles created in this step
Scheduled == {t.id : t \in timers'} \ {t.id : t \in timers}

\* C1: a response of a call that is not the most recently issued one is
\* discarded: it changes neither the suggestions, nor the dropdown visibility,
\* nor the highlighted index.
C1_StaleResponseDiscarded ==
    [][\A c \in Arrived :
           c < issued => UNCHANGED <<suggestions, showDropdown, selectedIndex>>]_vars

\* C2: whenever the input has trimmed length < 2, the suggestions list is empty.
C2_ShortInputNoCandidates == TooShort(value) => suggestions = <<>>

\* C3: while the input has trimmed length < 2 no debounced call is scheduled
\* (the pending one was cancelled), and no call, scheduled or sent, carries a
\* query of trimmed length < 2.
C3_ShortInputSuppressed ==
    /\ TooShort(value) => timers = {}
    /\ \A t \in timers : ~TooShort(t.query)
    /\ \A i \in 1..Len(fetchCalls) : ~TooShort(fetchCalls[i].query)

\* C3 witness: a call was scheduled, the input then became short, and the
\* call was cancelled, not sent.
C3_Witness ==
    /\ TooShort(value)
    /\ nextTimerId = 2
    /\ issued = 0
    /\ timers = {}

\* C4: a burst of input changes, each within the quiet period of the previous
\* one, sends at most one call; a call is sent only once DEBOUNCE_MS have
\* passed since the last change, and its query is the current input text.
C4_Debounce ==
    /\ [](burstCalls <= 1)
    /\ [][fetchCalls' # <<>>
          => (/\ sinceChange >= DEBOUNCE_MS
              /\ Len(fetchCalls') = 1
              /\ fetchCalls'[1].query = value)]_vars

\* C4 witness: a burst of two or more changes has just sent its one call.
C4_Witness ==
    /\ burstLen = 2
    /\ burstCalls = 1
    /\ fetchCalls # <<>>
    /\ fetchCalls[1].query = value

\* C5: a submission without a company selection, for which the resolution
\* service answers is_ambiguous with two or more matches, opens the ambiguity
\* modal on those matches and dispatches no search.
C5_AmbiguityPresented ==
    [][(/\ handleSubmit
        /\ Trim(prompt) # <<>>
        /\ Trim(tickerInput) = <<>>
        /\ selectedCompany = NullObj
        /\ resolveAnswer.is_ambiguous
        /\ Len(resolveAnswer.matches) >= 2)
       => (/\ showAmbiguityModal'
           /\ ambiguousMatches' = resolveAnswer.matches
           /\ onSearchCalls' = <<>>)]_vars

\* C6: a submission without a company selection dispatches no search when the
\* resolution service returns more than one match, whatever is_ambiguous says.
C6_MultipleMatchesBlockDispatch ==
    [][(/\ handleSubmit
        /\ Trim(prompt) # <<>>
        /\ Trim(tickerInput) = <<>>
        /\ selectedCompany = NullObj
        /\ Len(resolveAnswer.matches) > 1)
       => onSearchCalls' = <<>>]_vars

C8_RecoversFromError ==
    /\ [][(error # Null /\ value' # value /\ ~TooShort(value'))
          => \E t \in timers' : t.query = value' /\ t.remaining = DEBOUNCE_MS]_vars
    /\ [][(timers # {} /\ timers' = {} /\ value' = value)
          => (/\ Len(fetchCalls') = 1
              /\ fetchCalls'[1].query = value
              /\ issued' = issued + 1
              /\ issued' \in inflight')]_vars
    /\ (error # Null /\ timers # {}) ~> (timers = {})

\* C8 witness: after a failure the input has changed and the quiet period has
\* elapsed: the fresh call is due.
C8_Witness ==
    /\ error # Null
    /\ inflight = {}
    /\ issued >= 1
    /\ \E t \in timers : t.remaining = 0 /\ t.query = value

\* C9: a submit with prompt and ticker both empty after trimming produces the
\* validation message, dispatches nothing and changes nothing else; FinderApp
\* likewise sets its validation error and sends no POST /search.
C9_EmptySubmitRejected ==
    /\ [][(handleSubmit /\ Trim(prompt) = <<>> /\ Trim(tickerInput) = <<>>)
          => (/\ alertCalls' = <<"Please enter a search query or ticker symbol">>
              /\ onSearchCalls' = <<>>
              /\ UNCHANGED sfState)]_vars
    /\ [][(handleSearch /\ Trim(faPrompt) = <<>>)
          => (/\ faError' = "Please enter a search query"
              /\ postCalls' = <<>>
              /\ UNCHANGED <<posts, postCount, faPrompt, faResults, faLoading, apiKeys>>)]_vars
    /\ [](\A i \in 1..Len(onSearchCalls) :
              onSearchCalls[i] # [ticker |-> Absent, prompt |-> Absent])
    /\ [](\A i \in 1..Len(postCalls) : postCalls[i].prompt # <<>>)

\* C9 witness: a blank (not empty) prompt was submitted and rejected.
C9_Witness ==
    /\ prompt # <<>>
    /\ Trim(prompt) = <<>>
    /\ Trim(tickerInput) = <<>>
    /\ alertCalls # <<>>
    /\ onSearchCalls = <<>>

\* The ambiguity modal never opens and no search is ever pending: nothing in
\* SearchForm calls setShowAmbiguityModal(true), setAmbiguousMatches or
\* setPendingSearchData with a value.
AmbiguityUnreachable ==
    /\ ~showAmbiguityModal
    /\ ambiguousMatches = <<>>
    /\ pendingSearchData = NullObj
    /\ selectedCompany = NullObj

\* C12: a submission of a ticker with an empty prompt dispatches one request
\* that carries the ticker and the prompt "Find investor reports for {ticker}";
\* every dispatched search request has a prompt, and it is not empty.
C12_PromptAlwaysPresent ==
    /\ [][(handleSubmit /\ Trim(tickerInput) # <<>> /\ Trim(prompt) = <<>>)
          => onSearchCalls' =
                 <<[ticker |-> ToUpperCase(Trim(tickerInput)),
                    prompt |-> <<"Find investor reports for ">>
                                   \o ToUpperCase(Trim(tickerInput))]>>]_vars
    /\ [](\A i \in 1..Len(onSearchCalls) :
              onSearchCalls[i].prompt \notin {Absent, <<>>})

\* C12 witness: a ticker was submitted with a blank prompt and the request
\* went out with the made-up prompt.
C12_Witness ==
    /\ Trim(prompt) = <<>>
    /\ Trim(tickerInput) # <<>>
    /\ Len(onSearchCalls) = 1
    /\ onSearchCalls[1].prompt = <<"Find investor reports for ">> \o onSearchCalls[1].ticker

\* C13: the ticker of a dispatched request is the ticker override, trimmed and
\* upper-cased, whatever the prompt says; without an override the request has
\* no ticker field.
C13_TickerOverrideWins ==
    [][(handleSubmit /\ ~(Trim(prompt) = <<>> /\ Trim(tickerInput) = <<>>))
       => (/\ Len(onSearchCalls') = 1
           /\ onSearchCalls'[1].ticker =
                  IF Trim(tickerInput) # <<>>
                  THEN ToUpperCase(Trim(tickerInput)) ELSE Absent)]_vars

\* C13 witness: a prompt and an override typed with a blank around it were
\* submitted; the request carries the trimmed override.
C13_Witness ==
    /\ Trim(prompt) # <<>>
    /\ Trim(tickerInput) # <<>>
    /\ tickerInput # Trim(tickerInput)
    /\ Len(onSearchCalls) = 1
    /\ onSearchCalls[1].ticker = Trim(tickerInput)

\* C14: at most one debounce timer is pending at any time; a step that starts
\* a timer leaves that timer alone pending: the one pending before is cancelled.
C14_OneTimerPending ==
    /\ [](Cardinality(timers) <= 1)
    /\ [][Scheduled # {}
          => (/\ Cardinality(timers') = 1
              /\ \A t \in timers : t \notin timers')]_vars

\* C14 witness: a second timer was started while the first was pending; the
\* first never ran and only one timer is pending.
C14_Witness ==
    /\ nextTimerId = 3
    /\ issued = 0
    /\ Cardinality(timers) = 1
    /\ \A t \in timers : t.id = 2 /\ t.query = value

\* C15: while N candidates are displayed the highlighted index is within
\* -1..N-1, and the arrow keys keep it there: Arrow-down moves it forward by
\* one and stays on the last item, Arrow-up moves it back by one, from the
\* first item to none (-1), and stays at none.  Neither key changes the list
\* or closes the dropdown.
C15_HighlightInRange ==
    /\ [](DropdownOpen => selectedIndex \in -1..(Len(suggestions) - 1))
    /\ [][event' = KeyDown("ArrowDown")
          => (/\ selectedIndex' =
                     IF selectedIndex = Len(suggestions) - 1
                     THEN Len(suggestions) - 1 ELSE selectedIndex + 1
              /\ UNCHANGED <<suggestions, showDropdown>>)]_vars
    /\ [][event' = KeyDown("ArrowUp")
          => (/\ selectedIndex' = IF selectedIndex <= 0 THEN -1 ELSE selectedIndex - 1
              /\ UNCHANGED <<suggestions, showDropdown>>)]_vars

\* C15 witness: Arrow-down has put the highlight on the last of two candidates.
C15_Witness ==
    /\ event = KeyDown("ArrowDown")
    /\ DropdownOpen
    /\ Len(suggestions) = 2
    /\ selectedIndex = 1

\* C16: Enter in an open dropdown with item i highlighted calls onSelect once,
\* with candidate i; Enter with nothing highlighted calls onSelect zero times
\* and leaves the list, the dropdown and the highlighted index as they were.
C16_EnterFinalizesHighlighted ==
    [][event' = KeyDown("Enter")
       => IF selectedIndex \in 0..(Len(suggestions) - 1)
          THEN onSelectCalls' = <<suggestions[selectedIndex + 1]>>
          ELSE /\ onSelectCalls' = <<>>
               /\ UNCHANGED <<suggestions, showDropdown, selectedIndex>>]_vars

\* C16 witness: Enter has finalized one candidate.
C16_Witness ==
    /\ event = KeyDown("Enter")
    /\ Len(onSelectCalls) = 1
    /\ onSelectCalls[1] \in Tickers

\* C17: hovering item i highlights item i.  A click on item i calls onSelect
\* once with candidate i and leaves a state that does not depend on the
\* highlight; with item i highlighted, a click on item i and Enter are the same
\* step: the same onSelect call and the same resulting state.
C17_ClickIsEnter ==
    /\ [][event'.type = "mouseenter"
          => (/\ selectedIndex' = event'.index
              /\ UNCHANGED <<suggestions, showDropdown>>)]_vars
    /\ [][event'.type = "click"
          => (/\ onSelectCalls' = <<suggestions[event'.index + 1]>>
              /\ suggestions' = <<>>
              /\ ~showDropdown'
              /\ selectedIndex' = -1
              /\ UNCHANGED <<value, loading, error>>)]_vars
    /\ [][(DropdownOpen /\ selectedIndex \in 0..(Len(suggestions) - 1))
          => (Click(selectedIndex) <=> Enter)]_vars

\* C17 witness: the second item was clicked and reported.
C17_Witness ==
    /\ event = Pointer("click", 1)
    /\ Len(onSelectCalls) = 1
    /\ ~showDropdown
    /\ suggestions = <<>>

\* C18: Escape in an open dropdown closes the dropdown and resets the
\* highlighted index to -1; the text of the input is unchanged (onChange is
\* not called) and onSelect is not called.
C18_EscapeCloses ==
    [][event' = KeyDown("Escape")
       => (/\ ~showDropdown'
           /\ selectedIndex' = -1
           /\ value' = value
           /\ onSelectCalls' = <<>>)]_vars

\* C18 witness: Escape has closed a dropdown whose list is still held, under
\* a typed text.
C18_Witness ==
    /\ event = KeyDown("Escape")
    /\ ~showDropdown
    /\ selectedIndex = -1
    /\ suggestions # <<>>
    /\ ~TooShort(value)

\* C19: a pointer press outside the container while the dropdown is open
\* closes the dropdown and finalizes nothing: onSelect is not called, and the
\* text of the input and the list of candidates are unchanged.
C19_OutsidePressCloses ==
    [][event'.type = "mousedown"
       => (/\ showDropdown
           /\ ~showDropdown'
           /\ onSelectCalls' = <<>>
           /\ UNCHANGED <<value, suggestions>>)]_vars

\* C19 witness: a press outside has closed a dropdown in which an item was
\* highlighted; the candidates are still held and nothing was reported.
C19_Witness ==
    /\ event.type = "mousedown"
    /\ ~showDropdown
    /\ suggestions # <<>>
    /\ selectedIndex >= 0
    /\ onSelectCalls = <<>>

\* C20: when the response of the most recent resolution call arrives with
\* success and 0 candidates, for an input of trimmed length >= 2, and no call is
\* loading afterwards, the "no matches" message is rendered and the error
\* message is not.
C20_NoMatchesShown ==
    [][\A c \in inflight :
           (ResponseOk(c, <<>>) /\ c = issued /\ Len(Trim(value)) >= 2 /\ ~loading')
           => (NoResultsShown' /\ ~ErrorShown')]_vars

\* The "no matches" message is never rendered: every step that empties the
\* list also closes the dropdown (lines 48-49, 75-76, 81-82, 128-130).
NoResultsNeverShown == ~NoResultsShown

\* C21: once CompanyAutocomplete is unmounted no debounce timer is pending,
\* and no step sends a resolution call.
C21_UnmountCancelsTimer ==
    /\ [](~ACMounted => timers = {})
    /\ [][~ACMounted' => (fetchCalls' = <<>> /\ issued' = issued)]_vars

\* C21 witness: the component was unmounted right after the change that
\* scheduled its only timer; the timer is gone and no call was sent.
C21_Witness ==
    /\ mounted = "none"
    /\ nextTimerId = 2
    /\ burstLen = 1
    /\ sinceChange = 0
    /\ timers = {}
    /\ issued = 0

\* C22: the displayed candidates are the matches of the applied response, in
\* the order of the response: applying a response with matches m displays
\* exactly m, and the displayed list changes only by being closed or by a
\* response being applied.
C22_OrderPreserved ==
    /\ [][\A c \in inflight, m \in MatchLists :
              (ACMounted /\ ResponseOk(c, m))
              => (/\ Len(Displayed') = Len(m)
                  /\ \A i \in 1..Len(m) : Displayed'[i] = m[i])]_vars
    /\ [][Displayed' # Displayed
          => \/ Displayed' = <<>>
             \/ \E c \in inflight, m \in MatchLists :
                    ResponseOk(c, m) /\ Displayed' = m]_vars

\* C22 witness: a response listed T2 before T1 and that is the order shown.
C22_Witness ==
    /\ DropdownOpen
    /\ Displayed = <<"T2", "T1">>

\* C23: the confidence marker depends on the confidence alone, by the
\* thresholds 0.95 and 0.8: high from 0.95 up, medium from 0.8 up to but not
\* including 0.95, low for every other value, number or not; exactly one of
\* the three cases applies.
C23_BadgeByThreshold ==
    badge # NotRendered =>
        LET c == item.confidence
            high == c.isNumber /\ c.hundredths >= 95
            medium == c.isNumber /\ c.hundredths >= 80 /\ c.hundredths < 95
        IN  /\ high => badge = HighMarker
            /\ medium => badge = MediumMarker
            /\ (~high /\ ~medium) => badge = LowMarker
            /\ ~(high /\ medium)
            /\ Cardinality({HighMarker, MediumMarker, LowMarker}) = 3

\* C23 witness: an exact_ticker match of confidence 1.0 shows the high marker.
C23_Witness ==
    /\ item = [confidence |-> Num(100), match_type |-> Str("exact_ticker")]
    /\ badge = HighMarker

\* C24: the label is "Exact" for exact and exact_ticker, "Starts with" for
\* prefix, "Contains" for contains, "Similar" for fuzzy, and empty for every
\* other value, a missing one included; rendering always produces a label.
C24_LabelByMatchType ==
    badge # NotRendered =>
        LET t == item.match_type
        IN  label = IF t = Str("exact") \/ t = Str("exact_ticker") THEN "Exact"
                    ELSE IF t = Str("prefix") THEN "Starts with"
                    ELSE IF t = Str("contains") THEN "Contains"
                    ELSE IF t = Str("fuzzy") THEN "Similar"
                    ELSE ""

\* C24 witness: an item without match_type was rendered with the empty label.
C24_Witness ==
    /\ item.match_type = Missing
    /\ badge # NotRendered
    /\ label = ""

\* C25: every search request dispatched after a save carries the key values
\* that are saved at that moment, in the two key fields a request has.
C25_SavedKeysSent ==
    [][(saves > 0 /\ postCalls' # <<>>)
       => LET saved == RequestBody(faPrompt, localStorage.data)
          IN  /\ postCalls'[1].openai_api_key = saved.openai_api_key
              /\ postCalls'[1].serper_api_key = saved.serper_api_key]_vars

\* C26: no API key value is ever in localStorage.
C26_KeysNotInLocalStorage ==
    \A f \in KeyFields : localStorage.data[f] = <<>>

\* C27: a save made without an edit since the modal was opened leaves every
\* stored key as it was (a key that is not stored counting as the empty key).
C27_SaveWithoutEditKeepsKeys ==
    [][(saves' = saves + 1 /\ ~editedSinceOpen)
       => \A f \in KeyFields : localStorage'.data[f] = localStorage.data[f]]_vars

\* The merge of C27 holds whenever the item existed when the save was made:
\* loadSettings then replaced the whole form on opening.
MergeKeepsKeysOfStoredItem ==
    [][(saves' = saves + 1 /\ ~editedSinceOpen /\ localStorage.present)
       => \A f \in KeyFields : localStorage'.data[f] = localStorage.data[f]]_vars

\* A stored key of each length, masked or not, was kept by such a save.
StoredKeyKeptReached ==
    /\ saves = 2
    /\ ~editedSinceOpen
    /\ closeTimers = 1
    /\ localStorage.data.openai_api_key = Key(MASK_FROM)
    /\ localStorage.data.serper_api_key = Key(MASK_FROM - 1)

\* the state handleSelectSuggestion leaves: no list, no dropdown, no highlight
Discarded == suggestions = <<>> /\ ~showDropdown /\ selectedIndex = -1

\* C28: a finalization leaves the list empty, the dropdown closed and nothing
\* highlighted, and the step that follows it, unless it changes the input
\* value, keeps them so, the arrival of a response in flight included.
C28_FinalizedStaysDiscarded ==
    [][/\ onSelectCalls' # <<>> => Discarded'
       /\ (onSelectCalls # <<>> /\ value' = value) => Discarded']_vars

\* C29: whenever showDropdown is set, the list is non-empty and the
\* highlighted index is -1 or the index of one of its items.
C29_ShownListIndexed ==
    showDropdown =>
        /\ suggestions # <<>>
        /\ -1 <= selectedIndex
        /\ selectedIndex < Len(suggestions)

\* C29 witness: a second response replaced the list by a one-item list, whose
\* item was then highlighted by the pointer.
C29_Witness ==
    /\ showDropdown
    /\ issued = 2
    /\ inflight = {}
    /\ Len(suggestions) = 1
    /\ selectedIndex = 0
    /\ event = Pointer("mouseenter", 0)

\* C30: while CompanyAutocomplete is rendered, loading is true exactly when
\* at least one resolution call is in flight.
C30_LoadingIffInFlight ==
    ACMounted => (loading <=> inflight # {})
====
